---- MODULE Spec2Model ----
(***************************************************************************)
(* FitCRM (src/main.js): a single-page client manager.  The model covers   *)
(* the persistent store (localStorage blob), the in-memory repository, the *)
(* form controller with its validators, the table renderer and the search  *)
(* filter, and the exercise suggestions of the detail view (a fetch from   *)
(* the Wger API).  Every event handler of main.js is one action; each      *)
(* continuation of loadNextSessionExercises after an await is one action.  *)
(*                                                                         *)
(* Representation.  A JavaScript string is a sequence of one-character     *)
(* strings, so trim(), toLowerCase(), includes(), parseInt() and the       *)
(* regular expressions are computed character by character.  A date        *)
(* string "YYYY-MM-DD" is the number of its calendar day (EmptyDate is     *)
(* the empty string); new Date(s) is UTC midnight of that day.  Time is in *)
(* milliseconds since the model's epoch.                                   *)
(***************************************************************************)
EXTENDS Integers, Sequences, FiniteSets, TLC

VARIABLES
    stored,           \* localStorage[STORAGE_KEY]: [present, text]
    clients,          \* let clients          (main.js:461)
    editingId,        \* let editingId        (main.js:462)
    currentViewedId,  \* let currentViewedId  (main.js:463)
    form,             \* values of the nine form inputs
    searchInput,      \* value of #searchName
    rows,             \* records rendered in #clientTableBody
    now,              \* wall clock (what Date.now() returns), ms
    tz,               \* local time zone, hours east of UTC
    lastEvent,        \* the handler that ran last, its outcome and its dialog
    exercises,        \* the <li> items of #nextExercisesList
    placeholder,      \* textContent of #viewExercisesPlaceholder
    pending,          \* calls of loadNextSessionExercises suspended at an await
    received,         \* the body the last response.json() resolved to
    viewedDeleted     \* history: the client last viewed was deleted since

fetchVars == <<exercises, placeholder, pending, received>>

vars == <<stored, clients, editingId, currentViewedId, form, searchInput,
          rows, now, tz, lastEvent, exercises, placeholder, pending, received,
          viewedDeleted>>

-----------------------------------------------------------------------------
(* Bounds of the model *)

MaxClients == 2      \* the repository holds at most this many records
MaxMsTicks == 1      \* the clock advances at most this many ms after T0
MaxFetches == 2      \* at most this many exercise fetches are in flight

-----------------------------------------------------------------------------
(* Strings *)

null == -1                    \* JavaScript null, for editingId/currentViewedId
EmptyString == <<>>
EmptyDate == 0

Whitespace == {" ", "\t"}
Digits == {"0", "1", "2", "3", "4", "5", "6", "7", "8", "9"}

DigitValue(c) ==
    CASE c = "0" -> 0 [] c = "1" -> 1 [] c = "2" -> 2 [] c = "3" -> 3
      [] c = "4" -> 4 [] c = "5" -> 5 [] c = "6" -> 6 [] c = "7" -> 7
      [] c = "8" -> 8 [] c = "9" -> 9

\* String.prototype.toLowerCase on the letters the model's inputs use
LowerChar(c) ==
    CASE c = "A" -> "a" [] c = "B" -> "b" [] c = "C" -> "c" [] c = "D" -> "d"
      [] c = "E" -> "e" [] c = "J" -> "j" [] c = "L" -> "l" [] c = "M" -> "m"
      [] c = "N" -> "n" [] c = "O" -> "o" [] c = "R" -> "r" [] c = "U" -> "u"
      [] c = "X" -> "x" [] c = "Y" -> "y"
      [] OTHER -> c

toLowerCase(s) == [i \in 1..Len(s) |-> LowerChar(s[i])]

\* String.prototype.trim: drop leading and trailing whitespace
RECURSIVE TrimLeft(_)
TrimLeft(s) ==
    IF s # <<>> /\ Head(s) \in Whitespace THEN TrimLeft(Tail(s)) ELSE s

RECURSIVE TrimRight(_)
TrimRight(s) ==
    IF s # <<>> /\ s[Len(s)] \in Whitespace
    THEN TrimRight(SubSeq(s, 1, Len(s) - 1))
    ELSE s

trim(s) == TrimRight(TrimLeft(s))

\* String.prototype.includes
includes(s, q) ==
    \E i \in 0..(Len(s) - Len(q)) : SubSeq(s, i + 1, i + Len(q)) = q

\* phone.replace(/\D/g, "")
StripNonDigits(s) == SelectSeq(s, LAMBDA c : c \in Digits)

\* parseInt(s, 10): skip leading whitespace, an optional sign, then the
\* longest prefix of digits; NaN when that prefix is empty.
RECURSIVE DigitPrefixValue(_, _)
DigitPrefixValue(s, acc) ==
    IF s # <<>> /\ Head(s) \in Digits
    THEN DigitPrefixValue(Tail(s), 10 * acc + DigitValue(Head(s)))
    ELSE acc

parseInt(str) ==
    LET s    == TrimLeft(str)
        neg  == s # <<>> /\ Head(s) = "-"
        body == IF s # <<>> /\ Head(s) \in {"-", "+"} THEN Tail(s) ELSE s
    IN  IF body = <<>> \/ Head(body) \notin Digits
        THEN [nan |-> TRUE, n |-> 0]
        ELSE [nan |-> FALSE,
              n   |-> IF neg THEN 0 - DigitPrefixValue(body, 0)
                             ELSE DigitPrefixValue(body, 0)]

-----------------------------------------------------------------------------
(* Validators (main.js:222-289) *)

\* /^[^\s@]+@[^\s@]+\.(com|edu)$/i tested on email.trim()
isValidEmail(email) ==
    LET e == trim(email)
        n == Len(e)
        NoWsAt(s) == \A i \in 1..Len(s) : s[i] \notin Whitespace \cup {"@"}
    IN  /\ email # EmptyString
        /\ n >= 4
        /\ toLowerCase(SubSeq(e, n - 3, n)) \in
               {<<".", "c", "o", "m">>, <<".", "e", "d", "u">>}
        /\ \E a \in 2..(n - 5) :
              /\ e[a] = "@"
              /\ NoWsAt(SubSeq(e, 1, a - 1))
              /\ NoWsAt(SubSeq(e, a + 1, n - 4))

AgeMin == 5
AgeMax == 120

isValidAge(age) ==
    LET ageNum == parseInt(age)
    IN  /\ age # EmptyString
        /\ ~ageNum.nan
        /\ ageNum.n >= AgeMin
        /\ ageNum.n <= AgeMax

PhoneDigits == 11

isValidPhone(phone) ==
    /\ phone # EmptyString
    /\ Len(StripNonDigits(phone)) = PhoneDigits

HourMs == 3600000
DayMs == 24 * HourMs

\* new Date("YYYY-MM-DD").getTime(): UTC midnight of the day
DateFromString(dateString) == dateString * DayMs

\* d.setHours(0, 0, 0, 0): midnight, in local time, of d's local day
setHoursZero(t, zone) ==
    (((t + zone * HourMs) \div DayMs) * DayMs) - zone * HourMs

isDateNotInPast(dateString, t, zone) ==
    /\ dateString # EmptyDate
    /\ setHoursZero(DateFromString(dateString), zone) >= setHoursZero(t, zone)

isEndDateAfterStartDate(startDate, endDate) ==
    /\ startDate # EmptyDate
    /\ endDate # EmptyDate
    /\ DateFromString(endDate) > DateFromString(startDate)

-----------------------------------------------------------------------------
(* Persistent store (main.js:6-29) *)

(* The blob is JSON text, modelled as its sequence of tokens: the           *)
(* punctuation "[", "]", "{", "}", "," and one token per "key": value       *)
(* member (a number, a string, or a date string held as its day number).    *)
Punct(p) == [t |-> p, k |-> "", v |-> <<>>, n |-> 0]
NumMember(key, num) == [t |-> "num", k |-> key, v |-> <<>>, n |-> num]
StrMember(key, str) == [t |-> "str", k |-> key, v |-> str, n |-> 0]
DateMember(key, day) == [t |-> "date", k |-> key, v |-> <<>>, n |-> day]

StringifyClient_dropsEndDate(c) ==
    << Punct("{"),
       NumMember("id", c.id), Punct(","),
       StrMember("fullName", c.fullName), Punct(","),
       StrMember("age", c.age), Punct(","),
       StrMember("gender", c.gender), Punct(","),
       StrMember("email", c.email), Punct(","),
       StrMember("phone", c.phone), Punct(","),
       StrMember("goal", c.goal), Punct(","),
       DateMember("startDate", c.startDate),
       Punct("}") >>

\* JSON.stringify of one client object: keys in insertion order
StringifyClient(c) ==
    << Punct("{"),
       NumMember("id", c.id), Punct(","),
       StrMember("fullName", c.fullName), Punct(","),
       StrMember("age", c.age), Punct(","),
       StrMember("gender", c.gender), Punct(","),
       StrMember("email", c.email), Punct(","),
       StrMember("phone", c.phone), Punct(","),
       StrMember("goal", c.goal), Punct(","),
       DateMember("startDate", c.startDate), Punct(","),
       DateMember("endDate", c.endDate),
       Punct("}") >>

RECURSIVE StringifyElements(_)
StringifyElements(cs) ==
    IF cs = <<>> THEN <<>>
    ELSE IF Len(cs) = 1 THEN StringifyClient(cs[1])
    ELSE StringifyClient(cs[1]) \o <<Punct(",")>> \o StringifyElements(Tail(cs))

\* JSON.stringify(clients)
JSONstringify(cs) == <<Punct("[")>> \o StringifyElements(cs) \o <<Punct("]")>>

SyntaxError == [ok |-> FALSE, value |-> <<>>, next |-> 0]

MemberValue(tok) == IF tok.t = "str" THEN tok.v ELSE tok.n

\* members of an object from position i on, up to and including "}"
RECURSIVE ParseMembers(_, _, _)
ParseMembers(text, i, obj) ==
    IF i + 1 > Len(text) \/ text[i].t \notin {"num", "str", "date"}
    THEN SyntaxError
    ELSE LET obj2 == (text[i].k :> MemberValue(text[i])) @@ obj
         IN  IF text[i + 1].t = "}"
             THEN [ok |-> TRUE, value |-> obj2, next |-> i + 2]
             ELSE IF text[i + 1].t = ","
             THEN ParseMembers(text, i + 2, obj2)
             ELSE SyntaxError

ParseObject(text, i) ==
    IF i + 1 > Len(text) \/ text[i].t # "{"
    THEN SyntaxError
    ELSE IF text[i + 1].t = "}"
    THEN [ok |-> TRUE, value |-> [key \in {} |-> 0], next |-> i + 2]
    ELSE ParseMembers(text, i + 1, [key \in {} |-> 0])

\* elements of the array from position i on, up to the closing "]", which
\* must be the last token of the text
RECURSIVE ParseElements(_, _, _)
ParseElements(text, i, acc) ==
    LET o == ParseObject(text, i)
    IN  IF ~o.ok \/ o.next > Len(text)
        THEN SyntaxError
        ELSE IF text[o.next].t = "]"
        THEN IF o.next = Len(text)
             THEN [ok |-> TRUE, value |-> Append(acc, o.value), next |-> o.next + 1]
             ELSE SyntaxError
        ELSE IF text[o.next].t = ","
        THEN ParseElements(text, o.next + 1, Append(acc, o.value))
        ELSE SyntaxError

\* JSON.parse(text), for texts that are arrays of objects
JSONparse(text) ==
    IF Len(text) < 2 \/ text[1].t # "["
    THEN SyntaxError
    ELSE IF text[2].t = "]"
    THEN IF Len(text) = 2
         THEN [ok |-> TRUE, value |-> <<>>, next |-> 3]
         ELSE SyntaxError
    ELSE ParseElements(text, 2, <<>>)

\* localStorage.getItem(STORAGE_KEY) is null when the key is absent
AbsentBlob == [present |-> FALSE, text |-> <<>>]
Blob(text) == [present |-> TRUE, text |-> text]

loadClients(st) ==
    IF ~st.present \/ st.text = <<>>
    THEN <<>>
    ELSE LET parsed == JSONparse(st.text)
         IN  IF parsed.ok THEN parsed.value ELSE <<>>

saveClients_noWrite(cs) == UNCHANGED stored

saveClients_appends(cs) == stored' = Blob(stored.text \o JSONstringify(cs))

saveClients(cs) == stored' = Blob(JSONstringify(cs))

-----------------------------------------------------------------------------
(* Form and records *)

EmptyForm ==
    [fullName |-> EmptyString, age |-> EmptyString, gender |-> EmptyString,
     email |-> EmptyString, phone |-> EmptyString, goal |-> EmptyString,
     goalFree |-> EmptyString, startDate |-> EmptyDate, endDate |-> EmptyDate]

\* the constants the click handler reads from the inputs (main.js:495-503)
ReadForm(f) ==
    [fullName |-> trim(f.fullName), age |-> trim(f.age), gender |-> f.gender,
     email |-> trim(f.email), phone |-> trim(f.phone), goal |-> trim(f.goal),
     goalFree |-> trim(f.goalFree), startDate |-> f.startDate,
     endDate |-> f.endDate]

finalGoal_freeTextFirst(goal, goalFree) ==
    IF goalFree # EmptyString THEN goalFree ELSE goal

\* const finalGoal = goal || goalFree (main.js:505)
finalGoal(goal, goalFree) ==
    IF goal # EmptyString THEN goal ELSE goalFree

\* the alert of the first failed check, or "ok" (main.js:507-537)
Validate(v, t, zone) ==
    IF \/ v.fullName = EmptyString \/ v.email = EmptyString
       \/ v.phone = EmptyString \/ finalGoal(v.goal, v.goalFree) = EmptyString
       \/ v.startDate = EmptyDate \/ v.endDate = EmptyDate
    THEN "required"
    ELSE IF ~isValidEmail(v.email) THEN "email"
    ELSE IF v.age # EmptyString /\ ~isValidAge(v.age) THEN "age"
    ELSE IF ~isValidPhone(v.phone) THEN "phone"
    ELSE IF ~isDateNotInPast(v.startDate, t, zone) THEN "startDate"
    ELSE IF ~isEndDateAfterStartDate(v.startDate, v.endDate) THEN "endDate"
    ELSE "ok"

ValidationAlerts == {"required", "email", "age", "phone", "startDate", "endDate"}

\* the object literal of the add branch (main.js:544-554); id is Date.now()
NewClient(id, v) ==
    [id |-> id, fullName |-> v.fullName, age |-> v.age, gender |-> v.gender,
     email |-> v.email, phone |-> v.phone,
     goal |-> finalGoal(v.goal, v.goalFree),
     startDate |-> v.startDate, endDate |-> v.endDate]

UpdatedClient_noSpread(old, v) == NewClient(null, v)

\* { ...clients[index], fullName, ... } of the update branch (main.js:562-572)
UpdatedClient(old, v) ==
    [old EXCEPT !.fullName = v.fullName, !.age = v.age, !.gender = v.gender,
                !.email = v.email, !.phone = v.phone,
                !.goal = finalGoal(v.goal, v.goalFree),
                !.startDate = v.startDate, !.endDate = v.endDate]

fillFormFromClient_goalInDropdown(client) ==
    [fullName |-> client.fullName, age |-> client.age,
     gender |-> client.gender, email |-> client.email,
     phone |-> client.phone, goal |-> client.goal, goalFree |-> EmptyString,
     startDate |-> client.startDate, endDate |-> client.endDate]

\* fillFormFromClient (main.js:124-152): the goal goes to the free-text field
fillFormFromClient(client) ==
    [fullName |-> client.fullName, age |-> client.age,
     gender |-> client.gender, email |-> client.email,
     phone |-> client.phone, goal |-> EmptyString, goalFree |-> client.goal,
     startDate |-> client.startDate, endDate |-> client.endDate]

Ids(cs) == {cs[i].id : i \in 1..Len(cs)}

\* clients.findIndex(c => c.id === id), 1-based; 0 stands for JavaScript's -1
findIndex(cs, id) ==
    IF id \in Ids(cs)
    THEN CHOOSE i \in 1..Len(cs) :
            cs[i].id = id /\ \A j \in 1..(i - 1) : cs[j].id # id
    ELSE 0

\* clients.filter(c => c.id !== id)
filterOut(cs, id) == SelectSeq(cs, LAMBDA c : c.id # id)

-----------------------------------------------------------------------------
(* Inputs of the model *)

Today == 10                                \* the calendar day at page load
T0 == Today * DayMs + 15 * HourMs          \* the clock at page load (15:00 UTC)
TimeZones == {-5}                          \* 10:00 local time at page load

NameJane == <<"J", "a", "n", "e">>
NameBob == <<"B", "o", "b">>
EmailCom == <<"j", "@", "x", ".", "c", "o", "m">>
EmailEdu == <<"B", "@", "Y", ".", "E", "D", "U">>
EmailOrg == <<"j", "@", "x", ".", "o", "r", "g">>
PhoneFormatted ==
    <<"(", "5", "5", "5", ")", " ", "1", "2", "3", "-", "4", "5", "6", "7",
      "x", "1">>
PhonePlain == <<"0", "1", "2", "3", "4", "5", "6", "7", "8", "9", "0">>
PhoneTen == <<"0", "1", "2", "3", "4", "5", "6", "7", "8", "9">>
GoalLose == <<"L", "o", "s", "e">>
GoalRun == <<"R", "u", "n">>
GenderMale == <<"m", "a", "l", "e">>

\* three valid submissions: goal from the dropdown, from the free text, both
FormJane ==
    [fullName |-> <<" ">> \o NameJane \o <<" ">>, age |-> EmptyString,
     gender |-> EmptyString, email |-> EmailCom, phone |-> PhoneFormatted,
     goal |-> GoalLose, goalFree |-> EmptyString,
     startDate |-> Today + 1, endDate |-> Today + 8]
FormBob ==
    [fullName |-> NameBob, age |-> <<"3", "0">>, gender |-> GenderMale,
     email |-> EmailEdu, phone |-> PhonePlain,
     goal |-> EmptyString, goalFree |-> GoalRun,
     startDate |-> Today + 2, endDate |-> Today + 3]
FormBothGoals == [FormBob EXCEPT !.goal = GoalLose]
\* starts on the day of the page load
FormStartsToday == [FormJane EXCEPT !.startDate = Today]
\* one submission per validation rule
FormNoName == [FormJane EXCEPT !.fullName = <<" ">>]
FormBadEmail == [FormJane EXCEPT !.email = EmailOrg]
FormBadAge == [FormJane EXCEPT !.age = <<"1", "2", "1">>]
FormBadPhone == [FormJane EXCEPT !.phone = PhoneTen]
FormPastStart == [FormJane EXCEPT !.startDate = Today - 1]
FormBadEnd == [FormJane EXCEPT !.endDate = Today + 1]

FormInputs ==
    {FormJane, FormBob, FormBothGoals, FormStartsToday, FormNoName,
     FormBadEmail, FormBadAge, FormBadPhone, FormPastStart, FormBadEnd}

\* a query of blanks, and one in upper case with a trailing blank (the box
\* is emptied by the Escape key)
SearchInputs == {<<" ">>, <<"A", "N", " ">>}

\* a blob cut short in the middle of a record: JSON.parse throws on it
TruncatedText ==
    SubSeq(JSONstringify(<<NewClient(T0 - DayMs, ReadForm(FormJane))>>), 1, 5)

\* what the store holds when the page is first loaded: nothing, the empty
\* string, an unparseable text, or the empty array
InitialBlobs ==
    {AbsentBlob, Blob(EmptyString), Blob(TruncatedText),
     Blob(JSONstringify(<<>>))}

\* a data-id that no record of the repository carries
StaleId == T0 - 2 * DayMs

\* every whole-hour offset from UTC-12 to UTC+14: at T0 the local time of
\* day is 03:00 in the first and 05:00 of the next day in the last zone
AllTimeZones == (0 - 12)..14

\* start dates around the day of the submission, the end a week later
StartDateForms ==
    { [FormJane EXCEPT !.startDate = d, !.endDate = d + 7] :
          d \in (Today - 2)..(Today + 2) }

\* values of the age input (a number input): none, the integers at the
\* limits of the range, and decimals
AgeInputs ==
    { EmptyString, <<"4">>, <<"5">>, <<"3", "0">>, <<"1", "2", "0">>,
      <<"1", "2", "1">>, <<"5", ".", "5">>, <<"1", "2", "0", ".", "9">> }
AgeForms == {[FormJane EXCEPT !.age = a] : a \in AgeInputs}

\* ten, eleven and twelve digits, plain and formatted
PhoneTwelve == PhonePlain \o <<"1">>
PhoneDashed == <<"0", "1", "2", "-", "3", "4", "5", "-", "6", "7", "8", "9">>
PhoneInputs == {PhoneTen, PhoneDashed, PhonePlain, PhoneFormatted, PhoneTwelve}
PhoneForms == {[FormJane EXCEPT !.phone = p] : p \in PhoneInputs}

\* forms that may break several rules at once: a blank name, an email of
\* another domain, an age out of range, ten digits of phone, a start date
\* in the past, an end date that is missing or not after the start
SeveralFaultsForms ==
    { [fullName |-> n, age |-> a, gender |-> EmptyString, email |-> e,
       phone |-> p, goal |-> GoalLose, goalFree |-> EmptyString,
       startDate |-> s, endDate |-> d] :
          n \in {NameJane, <<" ">>},
          e \in {EmailCom, EmailOrg},
          a \in {EmptyString, <<"1", "2", "1">>, <<"1", "2", "0", ".", "9">>},
          p \in {PhonePlain, PhoneTen},
          s \in {Today - 2, Today + 1},
          d \in {EmptyDate, Today - 2, Today + 1, Today + 8} }

SubmitForms ==
    StartDateForms \cup AgeForms \cup PhoneForms \cup SeveralFaultsForms

\* the repository a previous session has saved
SavedClients ==
    << NewClient(T0 - DayMs, ReadForm(FormJane)),
       NewClient(T0 - DayMs + 1, ReadForm(FormBob)) >>

\* a saved repository of three clients, in the order they were added
ThreeClients ==
    SavedClients \o << NewClient(T0 - DayMs + 2, ReadForm(FormStartsToday)) >>

\* the forms typed while the order of the repository is watched
OrderForms == {FormJane, FormBob, FormNoName}

-----------------------------------------------------------------------------
(* UI helpers and mode switches *)

Event(op, result, dialog, id) ==
    [op |-> op, result |-> result, dialog |-> dialog, id |-> id]

\* renderClientTable (main.js:57-118): one row per element of the list
renderClientTable(list) == rows' = list

\* updateClientCount (main.js:40-51)
clientCountText(count) ==
    IF count = 0 THEN "none" ELSE IF count = 1 THEN "one" ELSE "many"

\* clearForm (main.js:157-167)
clearForm == form' = EmptyForm

enterAddMode_keepsEditing == UNCHANGED editingId /\ clearForm

\* enterAddMode (main.js:469-474)
enterAddMode == editingId' = null /\ clearForm

\* enterEditMode (main.js:476-488)
enterEditMode(client) ==
    /\ editingId' = client.id
    /\ form' = fillFormFromClient(client)

\* clients.find(c => c.id === id), for an id that is found
find(cs, id) == cs[findIndex(cs, id)]

-----------------------------------------------------------------------------
(* Exercise suggestions (main.js:299-443) *)

(* A text of the page or of an Error is a sequence of words.  An exercise   *)
(* of the response is [id, isArray, translations]: isArray tells whether    *)
(* exercise.translations is an array; a translation is [language, name],    *)
(* its name a string (a missing or null name is the empty string).          *)
English == 2                  \* language ID 2 = English
MaxShown == 5                 \* selectedExercises.length < 5

\* index.html is not among the sources: the placeholder is taken to start empty
InitialPlaceholder == <<>>
LoadingText == <<"Loading", "exercises", "for", "the", "next", "session">>
NoExercisesText == <<"No", "exercises", "found", "from", "the", "API">>
NoEnglishText == <<"No", "English", "exercises", "found", "from", "the", "API">>
UnableToConnectText == <<"Unable", "to", "connect", "to", "the", "Wger", "API">>
CorsText == <<"CORS", "error:", "Unable", "to", "access", "the", "API">>
CouldNotLoadText(message) ==
    <<"Could", "not", "load", "exercises:">> \o message
        \o <<"Please", "try", "again", "later.">>

\* new Error(`API request failed with status: ${status} ${statusText}`)
StatusMessage(status, statusText) ==
    <<"API", "request", "failed", "with", "status:", status>> \o statusText

\* the catch block (main.js:425-442)
ErrorText(message) ==
    IF \/ includes(message, <<"Failed", "to", "fetch">>)
       \/ includes(message, <<"NetworkError">>)
    THEN UnableToConnectText
    ELSE IF includes(message, <<"CORS">>)
    THEN CorsText
    ELSE CouldNotLoadText(message)

\* suspended calls: at `await fetch(...)` and at `await response.json()`
NoFetch == [fetch |-> 0, json |-> 0]
InFlight == pending.fetch + pending.json

Translation(language, name) == [language |-> language, name |-> name]
Exercise(id, translations) ==
    [id |-> id, isArray |-> TRUE, translations |-> translations]
\* a body: JSON text that parses ("data") or not ("invalid"), and
\* data.results when it is there; "none" before any body has arrived
Body(results) == [kind |-> "data", hasResults |-> TRUE, results |-> results]
BodyWithoutResults == [kind |-> "data", hasResults |-> FALSE, results |-> <<>>]
InvalidBody == [kind |-> "invalid", hasResults |-> FALSE, results |-> <<>>]
NoBody == [kind |-> "none", hasResults |-> FALSE, results |-> <<>>]

\* t => t.language === 2 && t.name
IsEnglishNamed(t) == t.language = English /\ t.name # EmptyString

\* the filter of main.js:338-343
HasEnglish(exercise) ==
    /\ exercise.isArray
    /\ \E i \in 1..Len(exercise.translations) :
          IsEnglishNamed(exercise.translations[i])

\* translations.find(pred): the first translation that satisfies pred
FindFirst(translations, pred(_)) ==
    LET hits == {i \in 1..Len(translations) : pred(translations[i])}
    IN  IF hits = {} THEN <<>>
        ELSE <<translations[CHOOSE i \in hits : \A j \in hits : i <= j]>>

\* hasEnglishName of the selection loop (main.js:363-369)
HasEnglishName(exercise) ==
    /\ exercise.isArray
    /\ LET found == FindFirst(exercise.translations, IsEnglishNamed)
       IN  found # <<>> /\ trim(found[1].name) # EmptyString

\* exerciseName of the display loop (main.js:386-405): <<>> stands for null
ExerciseName(exercise) ==
    IF ~exercise.isArray THEN <<>>
    ELSE LET found == FindFirst(exercise.translations,
                        LAMBDA t : IsEnglishNamed(t) /\ Len(trim(t.name)) > 0)
         IN  IF found = <<>> THEN <<>> ELSE <<trim(found[1].name)>>

Splice_removesTwo(seq, i) ==
    SubSeq(seq, 1, i - 1) \o SubSeq(seq, i + 2, Len(seq))

\* the sequence without its i-th element: splice(i, 1)
Splice(seq, i) == SubSeq(seq, 1, i - 1) \o SubSeq(seq, i + 1, Len(seq))

(* The selection loop (main.js:354-377).  Math.floor(Math.random() * n) is  *)
(* any index below n, so the loop has a set of outcomes: each is the        *)
(* selectedExercises it ends with and the number of iterations it took.     *)
RECURSIVE SelectionOutcomes(_, _, _)
SelectionOutcomes(selected, available, iterations) ==
    IF Len(selected) < MaxShown /\ Len(available) > 0
    THEN UNION { SelectionOutcomes(
                     IF HasEnglishName(available[randomIndex])
                     THEN Append(selected, available[randomIndex])
                     ELSE selected,
                     Splice(available, randomIndex),
                     iterations + 1) : randomIndex \in 1..Len(available) }
    ELSE {[selected |-> selected, iterations |-> iterations]}

\* the <li> items the display loop appends (main.js:380-419)
RECURSIVE ListItems(_)
ListItems(selected) ==
    IF selected = <<>> THEN <<>>
    ELSE LET name == ExerciseName(Head(selected))
         IN  (IF name = <<>> THEN <<>>
              ELSE << [item |-> Head(selected).id, text |-> name[1]] >>)
             \o ListItems(Tail(selected))

\* the synchronous head of loadNextSessionExercises (main.js:304-319)
loadNextSessionExercises ==
    /\ exercises' = <<>>
    /\ placeholder' = LoadingText
    /\ pending' = [pending EXCEPT !.fetch = @ + 1]
    /\ UNCHANGED received

-----------------------------------------------------------------------------
(* Inputs of the exercise fetch *)

\* error.message of a rejected fetch(): Chrome, Firefox, Safari
NetworkErrors ==
    { <<"Failed", "to", "fetch">>,
      <<"NetworkError", "when", "attempting", "to", "fetch", "resource.">>,
      <<"Load", "failed">> }

\* responses whose ok is false
HttpErrors ==
    { [status |-> "404", statusText |-> <<"Not", "Found">>],
      [status |-> "500", statusText |-> <<>>] }

\* error.message of a rejected response.json()
JsonErrorMessage == <<"Unexpected", "token">>

Squat == <<"S", "q", "u", "a", "t">>
Plank == <<"P", "l", "a", "n", "k">>
Lunge == <<"L", "u", "n", "g", "e">>
Kniebeuge == <<"K", "n", "i", "e">>
German == 1

\* one exercise per name, English only
Named(id, name) == Exercise(id, <<Translation(English, name)>>)

BodyEmpty == Body(<<>>)
BodyGerman == Body(<<Exercise(1, <<Translation(German, Kniebeuge)>>)>>)
\* the only English name is a blank
BodyBlank == Body(<<Exercise(1, <<Translation(English, <<" ">>)>>)>>)
\* a padded name behind a German one; a blank English name in front of a
\* real one; translations that are not an array
BodyMixed ==
    Body(<< Named(1, Squat),
            Exercise(2, <<Translation(German, Kniebeuge),
                          Translation(English, <<" ">> \o Plank \o <<" ">>)>>),
            Exercise(3, <<Translation(English, <<" ">>),
                          Translation(English, Lunge)>>),
            [id |-> 4, isArray |-> FALSE, translations |-> <<>>] >>)
BodyTwo == Body(<<Named(1, Squat), Named(2, Plank)>>)
\* more English names than are shown
BodySix ==
    Body(<< Named(1, Squat), Named(2, Plank), Named(3, Lunge),
            Exercise(4, <<Translation(German, Kniebeuge)>>),
            Named(5, Squat \o <<"2">>), Named(6, Plank \o <<"2">>),
            Named(7, Lunge \o <<"2">>) >>)

Bodies ==
    {InvalidBody, BodyWithoutResults, BodyEmpty, BodyGerman, BodyBlank,
     BodyTwo}
BigBodies == Bodies \cup {BodyMixed, BodySix}

-----------------------------------------------------------------------------
(* Startup (main.js:448-466) *)

Init ==
    /\ stored \in InitialBlobs
    /\ tz \in TimeZones
    /\ now = T0
    /\ clients = loadClients(stored)
    /\ editingId = null
    /\ currentViewedId = null
    /\ rows = clients
    /\ form = EmptyForm
    /\ searchInput = EmptyString
    /\ lastEvent = Event("load", "ok", "none", null)
    /\ exercises = <<>>
    /\ placeholder = InitialPlaceholder
    /\ pending = NoFetch
    /\ received = NoBody
    /\ viewedDeleted = FALSE

\* the page is loaded again: the script runs from the top, the store stays
Reload ==
    /\ clients' = loadClients(stored)
    /\ editingId' = null
    /\ currentViewedId' = null
    /\ renderClientTable(clients')
    /\ form' = EmptyForm
    /\ searchInput' = EmptyString
    /\ lastEvent' = Event("load", "ok", "none", null)
    /\ exercises' = <<>>
    /\ placeholder' = InitialPlaceholder
    /\ pending' = NoFetch
    /\ received' = NoBody
    /\ viewedDeleted' = FALSE
    /\ UNCHANGED <<stored, now, tz>>

-----------------------------------------------------------------------------
(* The form (main.js:493-622) *)

\* the user fills the inputs of the form
TypeForm(f) ==
    /\ form' = f
    /\ lastEvent' = Event("type", "ok", "none", null)
    /\ UNCHANGED <<stored, clients, editingId, currentViewedId, searchInput,
                   rows, now, tz,
                   fetchVars, viewedDeleted>>

SubmitRejected_clearsForm(msg) ==
    /\ lastEvent' = Event("submit", msg, "alert", null)
    /\ clearForm
    /\ UNCHANGED <<stored, clients, editingId, rows>>

\* a failed check: alert and return (main.js:508-537)
SubmitRejected(msg) ==
    /\ lastEvent' = Event("submit", msg, "alert", null)
    /\ UNCHANGED <<stored, clients, editingId, form, rows>>

SubmitAdd_unshift(v, t) ==
    /\ clients' = << NewClient(t, v) >> \o clients
    /\ lastEvent' = Event("submit", "added", "alert", null)
    /\ UNCHANGED editingId
    /\ saveClients(clients')
    /\ renderClientTable(clients')
    /\ clearForm

\* the add branch, then save, render, clear (main.js:542-557, 580-583)
SubmitAdd(v, t) ==
    /\ clients' = Append(clients, NewClient(t, v))
    /\ lastEvent' = Event("submit", "added", "alert", null)
    /\ UNCHANGED editingId
    /\ saveClients(clients')
    /\ renderClientTable(clients')
    /\ clearForm

SubmitUpdate_staysInEditMode(v) ==
    LET index == findIndex(clients, editingId)
    IN  /\ clients' =
              IF index # 0
              THEN [clients EXCEPT ![index] = UpdatedClient(clients[index], v)]
              ELSE clients
        /\ lastEvent' =
              IF index # 0
              THEN Event("submit", "updated", "alert", null)
              ELSE Event("submit", "missing", "none", null)
        /\ UNCHANGED editingId
        /\ saveClients(clients')
        /\ renderClientTable(clients')
        /\ clearForm

\* the update branch, then save, render, clear (main.js:558-583)
SubmitUpdate(v) ==
    LET index == findIndex(clients, editingId)
    IN  /\ clients' =
              IF index # 0
              THEN [clients EXCEPT ![index] = UpdatedClient(clients[index], v)]
              ELSE clients
        /\ lastEvent' =
              IF index # 0
              THEN Event("submit", "updated", "alert", null)
              ELSE Event("submit", "missing", "none", null)
        /\ enterAddMode
        /\ saveClients(clients')
        /\ renderClientTable(clients')
        /\ clearForm

\* click on "Add Client" / "Save Changes" at clock time t
SubmitClick(t) ==
    LET v == ReadForm(form)
        verdict == Validate(v, t, tz)
    IN  /\ t \in now..(now + 1)
        /\ t <= T0 + MaxMsTicks
        /\ (verdict = "ok" /\ editingId = null) => Len(clients) < MaxClients
        /\ now' = t
        /\ IF verdict # "ok" THEN SubmitRejected(verdict)
           ELSE IF editingId = null THEN SubmitAdd(v, t)
           ELSE SubmitUpdate(v)
        /\ UNCHANGED <<currentViewedId, searchInput, tz, fetchVars, viewedDeleted>>

\* click on "Cancel" (main.js:599-613)
CancelEditClick ==
    /\ enterAddMode
    /\ lastEvent' = Event("cancel", IF editingId # null THEN "leftEdit" ELSE "ok",
                          "none", null)
    /\ UNCHANGED <<stored, clients, currentViewedId, searchInput, rows, now, tz,
                   fetchVars, viewedDeleted>>

\* click on the "Add New" link of the list page (main.js:618-622)
AddNewClick ==
    /\ enterAddMode
    /\ lastEvent' = Event("addNew", "ok", "none", null)
    /\ UNCHANGED <<stored, clients, currentViewedId, searchInput, rows, now, tz,
                   fetchVars, viewedDeleted>>

-----------------------------------------------------------------------------
(* Search (main.js:627-665) *)

TypeSearch(q) ==
    /\ searchInput' = q
    /\ lastEvent' = Event("typeSearch", "ok", "none", null)
    /\ UNCHANGED <<stored, clients, editingId, currentViewedId, form, rows,
                   now, tz,
                   fetchVars, viewedDeleted>>

filterByName_startsWith(cs, query) ==
    SelectSeq(cs, LAMBDA c : /\ Len(c.fullName) >= Len(query)
                             /\ SubSeq(toLowerCase(c.fullName), 1, Len(query))
                                   = query)

\* clients.filter(c => c.fullName && c.fullName.toLowerCase().includes(query))
filterByName(cs, query) ==
    SelectSeq(cs, LAMBDA c : /\ c.fullName # EmptyString
                             /\ includes(toLowerCase(c.fullName), query))

ApplySearch_leavesEditMode ==
    LET query == toLowerCase(trim(searchInput))
    IN  /\ IF query = EmptyString
           THEN renderClientTable(clients)
           ELSE renderClientTable(filterByName(clients, query))
        /\ lastEvent' = Event("search", "ok", "none", null)
        /\ editingId' = null
        /\ UNCHANGED <<stored, clients, currentViewedId, form,
                       searchInput, now, tz, fetchVars, viewedDeleted>>

\* applySearch, from the Enter key or the Search button
ApplySearch ==
    LET query == toLowerCase(trim(searchInput))
    IN  /\ IF query = EmptyString
           THEN renderClientTable(clients)
           ELSE renderClientTable(filterByName(clients, query))
        /\ lastEvent' = Event("search", "ok", "none", null)
        /\ UNCHANGED <<stored, clients, editingId, currentViewedId, form,
                       searchInput, now, tz,
                   fetchVars, viewedDeleted>>

\* the Escape key in the search box
EscapeSearch ==
    /\ searchInput' = EmptyString
    /\ renderClientTable(clients)
    /\ lastEvent' = Event("escape", "ok", "none", null)
    /\ UNCHANGED <<stored, clients, editingId, currentViewedId, form, now, tz,
                   fetchVars, viewedDeleted>>

-----------------------------------------------------------------------------
(* Table clicks (main.js:670-740) and "Edit This Client" (main.js:745-763) *)

\* the data-id of a clicked button: a rendered row's, or one that is stale
ClickTargets == Ids(rows) \cup {StaleId}

DeleteNotFound(id) ==
    /\ lastEvent' = Event("delete", "notfound", "none", id)
    /\ UNCHANGED <<stored, clients, rows, viewedDeleted>>

DeleteDeclined_deletes(id) ==
    /\ clients' = filterOut(clients, id)
    /\ saveClients(clients')
    /\ renderClientTable(clients')
    /\ lastEvent' = Event("delete", "declined", "confirm", id)
    /\ UNCHANGED viewedDeleted

DeleteDeclined(id) ==
    /\ lastEvent' = Event("delete", "declined", "confirm", id)
    /\ UNCHANGED <<stored, clients, rows, viewedDeleted>>

DeleteConfirmed(id) ==
    /\ clients' = filterOut(clients, id)
    /\ saveClients(clients')
    /\ renderClientTable(clients')
    /\ lastEvent' = Event("delete", "deleted", "confirm", id)
    /\ viewedDeleted' = (viewedDeleted \/ id = currentViewedId)

DeleteClick(id, ok) ==
    /\ id \in ClickTargets
    /\ IF id \notin Ids(clients) THEN DeleteNotFound(id)
       ELSE IF ~ok THEN DeleteDeclined(id)
       ELSE DeleteConfirmed(id)
    /\ UNCHANGED <<editingId, currentViewedId, form, searchInput, now, tz,
                   fetchVars>>

EditClick(id) ==
    /\ id \in ClickTargets
    /\ IF id \notin Ids(clients)
       THEN /\ lastEvent' = Event("edit", "notfound", "none", id)
            /\ UNCHANGED <<editingId, form>>
       ELSE /\ enterEditMode(find(clients, id))
            /\ lastEvent' = Event("edit", "ok", "none", id)
    /\ UNCHANGED <<stored, clients, currentViewedId, searchInput, rows, now, tz,
                   fetchVars, viewedDeleted>>

ViewClick(id) ==
    /\ id \in ClickTargets
    /\ IF id \notin Ids(clients)
       THEN /\ lastEvent' = Event("view", "notfound", "none", id)
            /\ UNCHANGED <<currentViewedId, fetchVars, viewedDeleted>>
       ELSE /\ InFlight < MaxFetches
            /\ currentViewedId' = id
            /\ viewedDeleted' = FALSE
            /\ loadNextSessionExercises
            /\ lastEvent' = Event("view", "ok", "none", id)
    /\ UNCHANGED <<stored, clients, editingId, form, searchInput, rows, now, tz>>

\* click on "Edit This Client" of the detail page
EditFromViewClick ==
    /\ IF currentViewedId = null
       THEN /\ lastEvent' = Event("editFromView", "noSelection", "alert", null)
            /\ UNCHANGED <<editingId, form>>
       ELSE IF currentViewedId \notin Ids(clients)
       THEN /\ lastEvent' = Event("editFromView", "notfound", "alert", null)
            /\ UNCHANGED <<editingId, form>>
       ELSE /\ enterEditMode(find(clients, currentViewedId))
            /\ lastEvent' = Event("editFromView", "ok", "none", null)
    /\ UNCHANGED <<stored, clients, currentViewedId, searchInput, rows, now, tz,
                   fetchVars, viewedDeleted>>

-----------------------------------------------------------------------------
(* Continuations of loadNextSessionExercises (main.js:319-442) *)

crmVars == <<stored, clients, editingId, currentViewedId, form, searchInput,
             rows, now, tz, viewedDeleted>>

\* fetch() rejects: the catch block runs
FetchRejected(message) ==
    /\ pending.fetch > 0
    /\ pending' = [pending EXCEPT !.fetch = @ - 1]
    /\ placeholder' = ErrorText(message)
    /\ lastEvent' = Event("fetch", "rejected", "none", null)
    /\ UNCHANGED <<exercises, received, crmVars>>

\* fetch() resolves: !response.ok throws into the catch block, otherwise
\* the call suspends again at response.json()
FetchResolved(ok, status, statusText) ==
    /\ pending.fetch > 0
    /\ IF ~ok
       THEN /\ pending' = [pending EXCEPT !.fetch = @ - 1]
            /\ placeholder' = ErrorText(StatusMessage(status, statusText))
            /\ lastEvent' = Event("fetch", "status", "none", null)
       ELSE /\ pending' = [pending EXCEPT !.fetch = @ - 1, !.json = @ + 1]
            /\ lastEvent' = Event("fetch", "response", "none", null)
            /\ UNCHANGED placeholder
    /\ UNCHANGED <<exercises, received, crmVars>>

\* response.json() settles: the rest of the function runs (main.js:325-424)
JsonSettled(body) ==
    LET results == IF body.hasResults THEN body.results ELSE <<>>
        exercisesWithEnglish == SelectSeq(results, HasEnglish)
    IN  /\ pending.json > 0
        /\ pending' = [pending EXCEPT !.json = @ - 1]
        /\ received' = body
        /\ IF body.kind = "invalid"
           THEN /\ placeholder' = ErrorText(JsonErrorMessage)
                /\ lastEvent' = Event("fetch", "invalid", "none", null)
                /\ UNCHANGED exercises
           ELSE IF Len(results) = 0
           THEN /\ placeholder' = NoExercisesText
                /\ lastEvent' = Event("fetch", "noResults", "none", null)
                /\ UNCHANGED exercises
           ELSE IF Len(exercisesWithEnglish) = 0
           THEN /\ placeholder' = NoEnglishText
                /\ lastEvent' = Event("fetch", "noEnglish", "none", null)
                /\ UNCHANGED exercises
           ELSE /\ \E outcome \in SelectionOutcomes(<<>>, exercisesWithEnglish, 0) :
                      exercises' = exercises \o ListItems(outcome.selected)
                /\ placeholder' = <<>>
                /\ lastEvent' = Event("fetch", "shown", "none", null)
        /\ UNCHANGED crmVars

-----------------------------------------------------------------------------

Next ==
    \/ Reload
    \/ \E f \in FormInputs : TypeForm(f)
    \/ \E t \in now..(now + 1) : SubmitClick(t)
    \/ CancelEditClick
    \/ AddNewClick
    \/ \E q \in SearchInputs : TypeSearch(q)
    \/ ApplySearch
    \/ EscapeSearch
    \/ \E id \in ClickTargets, ok \in BOOLEAN : DeleteClick(id, ok)
    \/ \E id \in Ids(rows) : EditClick(id)
    \/ \E id \in Ids(rows) : ViewClick(id)
    \/ EditFromViewClick

Spec == Init /\ [][Next]_vars

(* The list and the detail view with the network answering: the page is    *)
(* loaded with a saved repository, clients are searched, viewed, edited and *)
(* deleted, and every fetch settles at some time.                           *)
InitFetch ==
    /\ stored = Blob(JSONstringify(SavedClients))
    /\ tz \in TimeZones
    /\ now = T0
    /\ clients = loadClients(stored)
    /\ editingId = null
    /\ currentViewedId = null
    /\ rows = clients
    /\ form = EmptyForm
    /\ searchInput = EmptyString
    /\ lastEvent = Event("load", "ok", "none", null)
    /\ exercises = <<>>
    /\ placeholder = InitialPlaceholder
    /\ pending = NoFetch
    /\ received = NoBody
    /\ viewedDeleted = FALSE

NextFetch ==
    \/ Reload
    \/ \E q \in SearchInputs : TypeSearch(q)
    \/ ApplySearch
    \/ \E id \in Ids(rows) : ViewClick(id)
    \/ \E id \in Ids(rows) : EditClick(id)
    \/ \E id \in ClickTargets, ok \in BOOLEAN : DeleteClick(id, ok)
    \/ \E message \in NetworkErrors : FetchRejected(message)
    \/ \E e \in HttpErrors : FetchResolved(FALSE, e.status, e.statusText)
    \/ FetchResolved(TRUE, "200", <<"OK">>)
    \/ \E body \in Bodies : JsonSettled(body)

SpecFetch == InitFetch /\ [][NextFetch]_vars

(* The submit handler as a function of the form, the clock and the time     *)
(* zone: on a first visit a filled form is submitted, in any of the time    *)
(* zones and so at any hour of the local day.                               *)
InitSubmit ==
    /\ stored = AbsentBlob
    /\ tz \in AllTimeZones
    /\ now = T0
    /\ clients = loadClients(stored)
    /\ editingId = null
    /\ currentViewedId = null
    /\ rows = clients
    /\ form \in SubmitForms
    /\ searchInput = EmptyString
    /\ lastEvent = Event("type", "ok", "none", null)
    /\ exercises = <<>>
    /\ placeholder = InitialPlaceholder
    /\ pending = NoFetch
    /\ received = NoBody
    /\ viewedDeleted = FALSE

NextSubmit == \E t \in now..(now + 1) : SubmitClick(t)

SpecSubmit == InitSubmit /\ [][NextSubmit]_vars

(* Adds, edits and deletes on a saved repository of three clients.          *)
InitOrder ==
    /\ stored = Blob(JSONstringify(ThreeClients))
    /\ tz \in TimeZones
    /\ now = T0
    /\ clients = loadClients(stored)
    /\ editingId = null
    /\ currentViewedId = null
    /\ rows = clients
    /\ form = EmptyForm
    /\ searchInput = EmptyString
    /\ lastEvent = Event("load", "ok", "none", null)
    /\ exercises = <<>>
    /\ placeholder = InitialPlaceholder
    /\ pending = NoFetch
    /\ received = NoBody
    /\ viewedDeleted = FALSE

NextOrder ==
    \/ \E f \in OrderForms : TypeForm(f)
    \/ \E t \in now..(now + 1) : SubmitClick(t)
    \/ CancelEditClick
    \/ \E id \in Ids(rows) : EditClick(id)
    \/ \E id \in Ids(rows), ok \in BOOLEAN : DeleteClick(id, ok)

SpecOrder == InitOrder /\ [][NextOrder]_vars

(* One visit of the detail view: the first saved client has just been      *)
(* viewed, and the one fetch of that visit settles with any response.       *)
InitOneFetch ==
    /\ stored = Blob(JSONstringify(SavedClients))
    /\ tz \in TimeZones
    /\ now = T0
    /\ clients = loadClients(stored)
    /\ editingId = null
    /\ currentViewedId = clients[1].id
    /\ rows = clients
    /\ form = EmptyForm
    /\ searchInput = EmptyString
    /\ lastEvent = Event("view", "ok", "none", currentViewedId)
    /\ exercises = <<>>
    /\ placeholder = LoadingText
    /\ pending = [fetch |-> 1, json |-> 0]
    /\ received = NoBody
    /\ viewedDeleted = FALSE

NextOneFetch ==
    \/ \E message \in NetworkErrors : FetchRejected(message)
    \/ \E e \in HttpErrors : FetchResolved(FALSE, e.status, e.statusText)
    \/ FetchResolved(TRUE, "200", <<"OK">>)
    \/ \E body \in BigBodies : JsonSettled(body)

SpecOneFetch == InitOneFetch /\ [][NextOneFetch]_vars

-----------------------------------------------------------------------------
(* Properties *)

\* what the click handler reads from the form in the current state
Submitted == ReadForm(form)

\* the step is a run of the submit handler that passed every check
AcceptedSubmit ==
    /\ lastEvent'.op = "submit"
    /\ lastEvent'.result \notin ValidationAlerts

\* r carries the submitted values in every field but id
CarriesSubmitted(r, v) ==
    /\ r.fullName = v.fullName /\ r.age = v.age /\ r.gender = v.gender
    /\ r.email = v.email /\ r.phone = v.phone
    /\ r.goal = (IF v.goal # EmptyString THEN v.goal ELSE v.goalFree)
    /\ r.startDate = v.startDate /\ r.endDate = v.endDate

\* the sequence without its i-th element
RemoveAt(cs, i) == SubSeq(cs, 1, i - 1) \o SubSeq(cs, i + 1, Len(cs))

\* the text cannot be loaded: absent, empty, or JSON.parse throws
Unparseable(st) ==
    \/ ~st.present
    \/ st.text = EmptyString
    \/ ~JSONparse(st.text).ok

(* C1: every valid submission in Add mode grows the repository by exactly   *)
(* one record, appended at the end, whose id differs from the id of every   *)
(* record already in the repository.                                        *)
C1_AddAppendsFreshId ==
    [][ (AcceptedSubmit /\ editingId = null) =>
          /\ Len(clients') = Len(clients) + 1
          /\ SubSeq(clients', 1, Len(clients)) = clients
          /\ clients'[Len(clients')].id \notin Ids(clients) ]_vars

(* C2, as claimed: every valid submission in Edit mode leaves the size      *)
(* unchanged, leaves a record whose id is editingId and whose other fields  *)
(* are the submitted values, and returns to Add mode.                       *)
C2_EditLeavesEditedRecord ==
    [][ (AcceptedSubmit /\ editingId # null) =>
          /\ Len(clients') = Len(clients)
          /\ \E i \in 1..Len(clients') :
                /\ clients'[i].id = editingId
                /\ CarriesSubmitted(clients'[i], Submitted)
          /\ editingId' = null ]_vars

(* C2, amended: every valid submission in Edit mode leaves the size         *)
(* unchanged and returns to Add mode; when a record with id editingId is    *)
(* in the repository, the first such record keeps its id and position and   *)
(* takes the submitted values in every other field, and all other records   *)
(* are untouched; when there is none, the repository is unchanged.          *)
C2_EditReplacesRecordIfPresent ==
    [][ (AcceptedSubmit /\ editingId # null) =>
          /\ Len(clients') = Len(clients)
          /\ editingId' = null
          /\ IF editingId \in Ids(clients)
             THEN LET i == findIndex(clients, editingId)
                  IN  /\ clients'[i].id = editingId
                      /\ CarriesSubmitted(clients'[i], Submitted)
                      /\ \A j \in 1..Len(clients) :
                            j # i => clients'[j] = clients[j]
             ELSE clients' = clients ]_vars

C2_Witness ==
    /\ lastEvent.op = "submit"
    /\ lastEvent.result = "updated"
    /\ editingId = null
    /\ Len(clients) = 2
    /\ clients[1].fullName = NameBob
    /\ clients[2].fullName = NameBob

(* C3: a submission that a validation rule rejects changes nothing: the     *)
(* repository, the persisted blob, editingId, currentViewedId and the form  *)
(* fields are what they were, in Add mode and in Edit mode; and a           *)
(* submission that breaks a rule is rejected.                               *)
C3_RejectedSubmitChangesNothing ==
    [][ (/\ lastEvent'.op = "submit"
         /\ \/ lastEvent'.result \in ValidationAlerts
            \/ Validate(Submitted, now', tz) # "ok") =>
          /\ lastEvent'.result \in ValidationAlerts
          /\ UNCHANGED <<clients, stored, editingId, currentViewedId, form>>
       ]_vars

C3_Witness ==
    /\ lastEvent.op = "submit"
    /\ lastEvent.result = "email"
    /\ editingId # null
    /\ form = FormBadEmail
    /\ clients # <<>>

(* C4, as claimed: when the dropdown and the free text are both set, the    *)
(* stored goal is the free text; when one is set, the goal is that one.     *)
StoredBySubmit ==
    IF lastEvent'.result = "added"
    THEN clients'[Len(clients')]
    ELSE clients'[findIndex(clients, editingId)]

C4_FreeTextWins ==
    [][ (lastEvent'.op = "submit" /\ lastEvent'.result \in {"added", "updated"}) =>
          LET v == Submitted
          IN  /\ (v.goal # EmptyString /\ v.goalFree # EmptyString)
                    => StoredBySubmit.goal = v.goalFree
              /\ (v.goal # EmptyString /\ v.goalFree = EmptyString)
                    => StoredBySubmit.goal = v.goal
              /\ (v.goal = EmptyString /\ v.goalFree # EmptyString)
                    => StoredBySubmit.goal = v.goalFree ]_vars

(* C4, amended: when the dropdown and the free text are both set, the       *)
(* stored goal is the dropdown value (the free text is ignored); when one   *)
(* is set, the goal is that one.                                            *)
C4_DropdownWins ==
    [][ (lastEvent'.op = "submit" /\ lastEvent'.result \in {"added", "updated"}) =>
          LET v == Submitted
          IN  /\ (v.goal # EmptyString /\ v.goalFree # EmptyString)
                    => StoredBySubmit.goal = v.goal
              /\ (v.goal # EmptyString /\ v.goalFree = EmptyString)
                    => StoredBySubmit.goal = v.goal
              /\ (v.goal = EmptyString /\ v.goalFree # EmptyString)
                    => StoredBySubmit.goal = v.goalFree ]_vars

\* only FormBothGoals yields a record of Bob with the dropdown's goal
C4_Witness ==
    /\ lastEvent.op = "submit"
    /\ lastEvent.result = "added"
    /\ clients[Len(clients)].fullName = NameBob
    /\ clients[Len(clients)].goal = GoalLose

(* C5: the persisted blob deserializes to exactly the in-memory sequence,   *)
(* in every state; right after a successful submit or a confirmed delete    *)
(* the blob is present and parses, without error, to that sequence.  Hence  *)
(* a reload yields the repository held in memory.                           *)
C5_BlobIsRepository ==
    /\ loadClients(stored) = clients
    /\ lastEvent.result \in {"added", "updated", "missing", "deleted"} =>
          /\ stored.present
          /\ JSONparse(stored.text).ok
          /\ JSONparse(stored.text).value = clients

C5_Witness ==
    /\ lastEvent.op = "delete"
    /\ lastEvent.result = "deleted"
    /\ Len(clients) = 1
    /\ stored = Blob(JSONstringify(clients))

(* C6: a confirmed delete removes the record with the clicked id and only   *)
(* that record: the size decreases by exactly one, the other records keep   *)
(* their relative order, and the removed id is in neither the repository,   *)
(* the persisted blob nor the rendered rows.                                *)
C6_DeleteRemovesExactlyOne ==
    [][ (lastEvent'.op = "delete" /\ lastEvent'.result = "deleted") =>
          /\ Len(clients') = Len(clients) - 1
          /\ \E i \in 1..Len(clients) :
                /\ clients[i].id = lastEvent'.id
                /\ clients' = RemoveAt(clients, i)
          /\ lastEvent'.id \notin Ids(clients')
          /\ lastEvent'.id \notin Ids(loadClients(stored'))
          /\ lastEvent'.id \notin Ids(rows') ]_vars

(* C7: a delete whose confirmation is declined, or whose id matches no      *)
(* record, changes neither the repository, the persisted blob, editingId,   *)
(* currentViewedId nor the rendered rows; for an id that matches no record  *)
(* no confirmation is requested.                                            *)
C7_DeclinedOrUnknownDeleteIsNoOp ==
    [][ (lastEvent'.op = "delete" /\ lastEvent'.result # "deleted") =>
          /\ UNCHANGED <<clients, stored, editingId, currentViewedId, rows>>
          /\ lastEvent'.id \notin Ids(clients) =>
                (lastEvent'.result = "notfound" /\ lastEvent'.dialog = "none")
          /\ lastEvent'.id \in Ids(clients) =>
                (lastEvent'.result = "declined" /\ lastEvent'.dialog = "confirm")
       ]_vars

C7_Witness ==
    /\ lastEvent.op = "delete"
    /\ lastEvent.result = "declined"
    /\ lastEvent.id \in Ids(clients)
    /\ Len(rows) = 2

(* C8: cancelEdit leaves the repository and the persisted blob unchanged,   *)
(* sets editingId to null and clears every form field; and a valid          *)
(* submission in Add mode appends a record and leaves the others as they    *)
(* were.                                                                    *)
C8_CancelReturnsToAddMode ==
    [][ /\ lastEvent'.op = "cancel" =>
              /\ UNCHANGED <<clients, stored>>
              /\ editingId' = null
              /\ form' = EmptyForm
        /\ (AcceptedSubmit /\ editingId = null) =>
              /\ Len(clients') = Len(clients) + 1
              /\ SubSeq(clients', 1, Len(clients)) = clients ]_vars

C8_Witness ==
    /\ lastEvent.op = "cancel"
    /\ lastEvent.result = "leftEdit"
    /\ editingId = null
    /\ form = EmptyForm
    /\ clients # <<>>

(* C9: for the repository c of every reachable state, and every prefix of   *)
(* it (the empty sequence included), save(c) followed by load() returns c.  *)
C9_SaveLoadRoundTrip ==
    \A n \in 0..Len(clients) :
        LET c == SubSeq(clients, 1, n)
        IN  loadClients(Blob(JSONstringify(c))) = c

C9_Witness ==
    /\ lastEvent.op = "load"
    /\ Len(clients) = 2
    /\ clients[1] # clients[2]

(* C10: while the persisted blob is absent or cannot be parsed, the         *)
(* repository is empty and the mode is Add; the first successful            *)
(* submission then overwrites the blob with a snapshot that parses to       *)
(* exactly the new record.                                                  *)
C10_CorruptBlobStartsEmpty ==
    /\ [](Unparseable(stored) => (clients = <<>> /\ editingId = null))
    /\ [][ (AcceptedSubmit /\ Unparseable(stored)) =>
              /\ lastEvent'.result = "added"
              /\ Len(clients') = 1
              /\ CarriesSubmitted(clients'[1], Submitted)
              /\ stored'.present
              /\ JSONparse(stored'.text).ok
              /\ JSONparse(stored'.text).value = clients' ]_vars

C10_Witness ==
    /\ lastEvent.op = "load"
    /\ stored = Blob(TruncatedText)
    /\ ~JSONparse(stored.text).ok
    /\ clients = <<>>
    /\ editingId = null

\* s contains q somewhere, letters compared without regard to case
ContainsIgnoringCase(s, q) ==
    \E i \in 0..(Len(s) - Len(q)) :
        \A k \in 1..Len(q) : LowerChar(s[i + k]) = LowerChar(q[k])

\* the records of cs whose fullName contains q, in the order of cs
RECURSIVE KeepMatching(_, _)
KeepMatching(cs, q) ==
    IF cs = <<>> THEN <<>>
    ELSE (IF ContainsIgnoringCase(Head(cs).fullName, q)
          THEN <<Head(cs)>> ELSE <<>>) \o KeepMatching(Tail(cs), q)

(* C11: applying a search renders exactly the records of the repository     *)
(* whose fullName contains the trimmed query without regard to case, in     *)
(* repository order; an empty or blank query renders the whole repository   *)
(* in its order, and so does the Escape key, which also empties the box.    *)
C11_SearchRendersMatches ==
    [][ /\ lastEvent'.op = "search" =>
              /\ rows' = KeepMatching(clients, trim(searchInput))
              /\ trim(searchInput) = EmptyString => rows' = clients
        /\ lastEvent'.op = "escape" =>
              /\ rows' = clients
              /\ searchInput' = EmptyString ]_vars

\* a query in upper case with a trailing blank keeps Jane and drops Bob
C11_Witness ==
    /\ lastEvent.op = "search"
    /\ searchInput = <<"A", "N", " ">>
    /\ Len(clients) = 2
    /\ clients[1].fullName = NameBob
    /\ rows = <<clients[2]>>

(* C12: the read-only operations never change application data: applying a  *)
(* search, viewing a client, and every continuation of an exercise fetch    *)
(* (its start within the view, its success, each of its failures) leave     *)
(* the repository, the persisted blob and editingId as they were.           *)
C12_ReadOnlyOperations ==
    [][ lastEvent'.op \in {"search", "view", "fetch"} =>
            UNCHANGED <<clients, stored, editingId>> ]_vars

\* exercises are shown while a client is being edited
C12_Witness ==
    /\ lastEvent.op = "fetch"
    /\ lastEvent.result = "shown"
    /\ exercises # <<>>
    /\ editingId \in Ids(clients)
    /\ stored = Blob(JSONstringify(clients))

\* the calendar day of instant t on the wall clock of the zone
LocalDate(t, zone) == (t + zone * HourMs) \div DayMs

(* C13: for every time-zone offset and every time of day, the start-date    *)
(* check of a submission accepts a start date equal to the current local    *)
(* calendar date and every later date, and rejects every date before the    *)
(* current local calendar date.                                             *)
C13_StartDateAtDayGranularity ==
    [][ (/\ lastEvent'.op = "submit"
         /\ lastEvent'.result \notin {"required", "email", "age", "phone"}) =>
            (lastEvent'.result # "startDate"
                <=> Submitted.startDate >= LocalDate(now', tz)) ]_vars

\* s is the decimal notation of an integer: digits only, at least one
IsIntegerText(s) == s # <<>> /\ \A i \in 1..Len(s) : s[i] \in Digits

\* the number an integer text denotes
RECURSIVE IntegerValue(_)
IntegerValue(s) ==
    IF s = <<>> THEN 0
    ELSE 10 * IntegerValue(SubSeq(s, 1, Len(s) - 1)) + DigitValue(s[Len(s)])

\* how many characters of s are digits
DigitCount(s) == Cardinality({i \in 1..Len(s) : s[i] \in Digits})

(* C14: age and phone acceptance by submit match the reference rules: an    *)
(* empty age is accepted, a provided age is accepted iff it is an integer   *)
(* in [5,120], and a phone is accepted iff exactly 11 digits remain after   *)
(* removing every non-digit character.                                      *)
C14_AgeAndPhoneRules ==
    [][ lastEvent'.op = "submit" =>
          /\ lastEvent'.result \notin {"required", "email"} =>
                (lastEvent'.result # "age"
                    <=> \/ Submitted.age = EmptyString
                        \/ /\ IsIntegerText(Submitted.age)
                           /\ IntegerValue(Submitted.age) \in 5..120)
          /\ lastEvent'.result \notin {"required", "email", "age"} =>
                (lastEvent'.result # "phone"
                    <=> DigitCount(Submitted.phone) = 11) ]_vars

\* the exercise carries an English (language 2) name that is not blank
CarriesEnglishName(exercise) ==
    /\ exercise.isArray
    /\ \E i \in 1..Len(exercise.translations) :
          /\ exercise.translations[i].language = 2
          /\ trim(exercise.translations[i].name) # EmptyString

\* the list item shows exercise by one of its non-blank English names
ShownByEnglishName(li, exercise) ==
    /\ li.item = exercise.id
    /\ li.text # EmptyString
    /\ exercise.isArray
    /\ \E i \in 1..Len(exercise.translations) :
          /\ exercise.translations[i].language = 2
          /\ trim(exercise.translations[i].name) = li.text

Min(a, b) == IF a <= b THEN a ELSE b

(* C15: for a single exercise fetch that succeeds, the rendered items are   *)
(* pairwise distinct items of the response, each shown by a non-blank       *)
(* English (language 2) name, and their number is min(5, number of          *)
(* response items carrying a non-blank English name).                       *)
C15_ShownExercises ==
    [][ (lastEvent'.op = "fetch" /\ lastEvent'.result = "shown") =>
          LET results == received'.results
              carrying == {i \in 1..Len(results) : CarriesEnglishName(results[i])}
          IN  /\ \A m, n \in 1..Len(exercises') :
                    m # n => exercises'[m].item # exercises'[n].item
              /\ \A m \in 1..Len(exercises') :
                    \E i \in 1..Len(results) :
                        ShownByEnglishName(exercises'[m], results[i])
              /\ Len(exercises') = Min(5, Cardinality(carrying)) ]_vars

\* the ways a fetch fails that the claim names, by the outcome of the step
FailureCases == {"rejected", "status", "noResults", "noEnglish"}

\* the placeholder texts that tell of each case
CaseMessages(case) ==
    CASE case = "rejected" ->
            {UnableToConnectText} \cup {CouldNotLoadText(m) : m \in NetworkErrors}
      [] case = "status" ->
            {CouldNotLoadText(StatusMessage(e.status, e.statusText)) :
                e \in HttpErrors}
      [] case = "noResults" -> {NoExercisesText}
      [] case = "noEnglish" -> {NoEnglishText}

(* C16: when an exercise fetch ends in network failure, in a non-success    *)
(* HTTP status, in an empty results array, or in results none of which      *)
(* carries an English name, the exercise list is left empty and the         *)
(* placeholder holds a non-empty message of that case and of no other; no   *)
(* new fetch is started and the state of the client manager is unchanged.   *)
C16_FailedFetchShowsMessage ==
    [][ (lastEvent'.op = "fetch" /\ lastEvent'.result \in FailureCases) =>
          /\ exercises' = <<>>
          /\ placeholder' # EmptyString
          /\ placeholder' \in CaseMessages(lastEvent'.result)
          /\ \A other \in FailureCases \ {lastEvent'.result} :
                placeholder' \notin CaseMessages(other)
          /\ pending'.fetch + pending'.json = pending.fetch + pending.json - 1
          /\ UNCHANGED crmVars ]_vars

\* the step is beginEdit, from the table or from the detail view
BeginEditStep ==
    /\ lastEvent'.op \in {"edit", "editFromView"}
    /\ lastEvent'.result = "ok"

\* the id beginEdit was called for
BeginEditId ==
    IF lastEvent'.op = "edit" THEN lastEvent'.id ELSE currentViewedId

(* C17: beginEdit(client), from the table or from the detail view, sets     *)
(* editingId to client.id and fills the form from the record, the goal in   *)
(* the free-text field and the dropdown empty; and a submission that        *)
(* follows beginEdit immediately, no field changed, leaves every record of  *)
(* the repository equal to what it was.                                     *)
C17_BeginEditFillsForm ==
    [][ /\ BeginEditStep =>
              LET client == clients[findIndex(clients, BeginEditId)]
              IN  /\ BeginEditId \in Ids(clients)
                  /\ editingId' = client.id
                  /\ form'.fullName = client.fullName
                  /\ form'.age = client.age
                  /\ form'.gender = client.gender
                  /\ form'.email = client.email
                  /\ form'.phone = client.phone
                  /\ form'.goal = EmptyString
                  /\ form'.goalFree = client.goal
                  /\ form'.startDate = client.startDate
                  /\ form'.endDate = client.endDate
        /\ (/\ lastEvent.op \in {"edit", "editFromView"}
            /\ lastEvent.result = "ok"
            /\ lastEvent'.op = "submit") => clients' = clients ]_vars

\* Edit mode entered from the detail view for the second of two records,
\* with a form that the submit handler will accept as it stands
C17_Witness ==
    /\ lastEvent.op = "editFromView"
    /\ lastEvent.result = "ok"
    /\ Len(clients) = 2
    /\ editingId = clients[2].id
    /\ clients[1].id # clients[2].id
    /\ form.goalFree = clients[2].goal
    /\ Validate(ReadForm(form), now, tz) = "ok"

(* C18: the 'edit this client' action of the detail view enters Edit mode   *)
(* for exactly the most recently viewed client; when no client has been     *)
(* viewed, or the viewed client has since been deleted, it reports an       *)
(* error and leaves editingId, the form, the repository and the persisted   *)
(* blob unchanged.                                                          *)
C18_EditFromView ==
    [][ lastEvent'.op = "editFromView" =>
          IF currentViewedId = null \/ viewedDeleted
          THEN /\ lastEvent'.dialog = "alert"
               /\ lastEvent'.result \in {"noSelection", "notfound"}
               /\ UNCHANGED <<editingId, form, clients, stored>>
          ELSE /\ lastEvent'.result = "ok"
               /\ currentViewedId \in Ids(clients)
               /\ editingId' = currentViewedId
               /\ form' = fillFormFromClient(
                              clients[findIndex(clients, currentViewedId)])
               /\ UNCHANGED <<clients, stored>> ]_vars

\* the indices of the records that a delete of id leaves in the repository
RemainingIndices(cs, id) == {i \in 1..Len(cs) : cs[i].id # id}

\* after holds the records of before that remain, in their relative order
KeepsRelativeOrder(before, after, id) ==
    \E f \in [1..Len(after) -> 1..Len(before)] :
        /\ \A i, j \in 1..Len(after) : i < j => f[i] < f[j]
        /\ {f[i] : i \in 1..Len(after)} = RemainingIndices(before, id)
        /\ \A i \in 1..Len(after) : after[i] = before[f[i]]

(* C19: the repository order is insertion order: a new record is always    *)
(* last, an edit keeps the edited record at its index (and every other      *)
(* record as it was), a delete keeps the relative order of all remaining   *)
(* records, and no other click on the page moves a record.                  *)
C19_InsertionOrder ==
    [][ CASE lastEvent'.op = "submit" /\ lastEvent'.result = "added" ->
               /\ Len(clients') = Len(clients) + 1
               /\ SubSeq(clients', 1, Len(clients)) = clients
               /\ clients'[Len(clients')].id = now'
          [] lastEvent'.op = "submit" /\ lastEvent'.result = "updated" ->
               /\ Len(clients') = Len(clients)
               /\ \A i \in 1..Len(clients) :
                     /\ clients'[i].id = clients[i].id
                     /\ i # findIndex(clients, editingId) =>
                           clients'[i] = clients[i]
               /\ clients'[findIndex(clients, editingId)].fullName
                     = ReadForm(form).fullName
          [] lastEvent'.op = "delete" /\ lastEvent'.result = "deleted" ->
               /\ KeepsRelativeOrder(clients, clients', lastEvent'.id)
               /\ Len(clients') < Len(clients)
          [] OTHER -> clients' = clients ]_vars

\* the second of three records has just been deleted: the first and the
\* third remain, in that order
C19_Witness ==
    /\ lastEvent.op = "delete"
    /\ lastEvent.result = "deleted"
    /\ lastEvent.id = ThreeClients[2].id
    /\ Len(clients) = 2
    /\ clients[1].id = ThreeClients[1].id
    /\ clients[2].id = ThreeClients[3].id

\* the rules of a submission, in the order in which they are reported
RuleOrder == <<"required", "email", "age", "phone", "startDate", "endDate">>

\* the rules that the form f, submitted at instant t in the zone, violates
ViolatedRules(f, t, zone) ==
    LET missing(s) == trim(s) = EmptyString
    IN  {r \in ValidationAlerts :
           \/ /\ r = "required"
              /\ \/ missing(f.fullName) \/ missing(f.email) \/ missing(f.phone)
                 \/ (missing(f.goal) /\ missing(f.goalFree))
                 \/ f.startDate = EmptyDate \/ f.endDate = EmptyDate
           \/ /\ r = "email"
              /\ ~missing(f.email)
              /\ ~isValidEmail(trim(f.email))
           \/ /\ r = "age"
              /\ ~missing(f.age)
              /\ ~(/\ IsIntegerText(trim(f.age))
                   /\ IntegerValue(trim(f.age)) \in 5..120)
           \/ /\ r = "phone"
              /\ ~missing(f.phone)
              /\ DigitCount(f.phone) # 11
           \/ /\ r = "startDate"
              /\ f.startDate # EmptyDate
              /\ f.startDate < LocalDate(t, zone)
           \/ /\ r = "endDate"
              /\ f.startDate # EmptyDate
              /\ f.endDate # EmptyDate
              /\ f.endDate <= f.startDate}

\* the first rule of the order among those of a non-empty set
FirstInOrder(rules) ==
    RuleOrder[CHOOSE i \in 1..Len(RuleOrder) :
                 /\ RuleOrder[i] \in rules
                 /\ \A j \in 1..(i - 1) : RuleOrder[j] \notin rules]

(* C20: when a submission violates several rules, exactly one error is      *)
(* reported and it is the first in the fixed order: missing required field, *)
(* then email format, then age range, then phone length, then start date in *)
(* the past, then end date not after start date; nothing is saved.          *)
C20_FirstViolatedRuleReported ==
    [][ (/\ lastEvent'.op = "submit"
         /\ Cardinality(ViolatedRules(form, now', tz)) >= 2) =>
            /\ lastEvent'.result = FirstInOrder(ViolatedRules(form, now', tz))
            /\ lastEvent'.dialog = "alert"
            /\ UNCHANGED <<clients, stored, form, editingId>> ]_vars

\* the list could have been filled from the one response body: its items
\* are pairwise distinct items of body.results
FromResponse(list, body) ==
    /\ body.kind = "data"
    /\ body.hasResults
    /\ \A m, n \in 1..Len(list) : m # n => list[m].item # list[n].item
    /\ \A m \in 1..Len(list) :
          \E i \in 1..Len(body.results) : body.results[i].id = list[m].item

(* C21: under every interleaving of view actions and exercise-fetch         *)
(* completions, several fetches in flight and resolving in any order, the   *)
(* exercise list never holds more than 5 items, and all items shown come    *)
(* from a single fetch response.                                            *)
C21_ListOfOneFetch ==
    /\ Len(exercises) <= 5
    /\ \E body \in BigBodies : FromResponse(exercises, body)

\* editingId is null or names a record that is in the repository
EditingIdInRepository == editingId = null \/ editingId \in Ids(clients)

\* editingId becomes non-null only through beginEdit, for a record of the
\* repository
OnlyBeginEditSetsEditingId ==
    (editingId' # null /\ editingId' # editingId) =>
        (BeginEditStep /\ editingId' \in Ids(clients'))

\* after an accepted submission, "Cancel" or "Add New" the mode is Add
AddModeAfterSubmitOrCancel ==
    (AcceptedSubmit \/ lastEvent'.op \in {"cancel", "addNew"}) =>
        editingId' = null

\* the step is the confirmed delete of the record that is being edited
DeletesEditedRecord ==
    /\ lastEvent'.op = "delete"
    /\ lastEvent'.result = "deleted"
    /\ editingId # null
    /\ lastEvent'.id = editingId

(* C22: in every reachable state editingId is either null or the id of a    *)
(* record currently in the repository; it is null initially, becomes        *)
(* non-null only through beginEdit, and is null again after every           *)
(* successful submission, cancelEdit or 'Add New'.                          *)
C22_EditingIdInRepository ==
    /\ editingId = null
    /\ []EditingIdInRepository
    /\ [][OnlyBeginEditSetsEditingId /\ AddModeAfterSubmitOrCancel]_vars

(* C22, amended: editingId is null initially, becomes non-null only through *)
(* beginEdit of a record of the repository, and is null again after every   *)
(* accepted submission, cancelEdit or 'Add New'; it names a record of the   *)
(* repository until that record is deleted: a confirmed delete of the       *)
(* record being edited leaves editingId as it is, naming no record.         *)
C22_EditingIdUntilDeleted ==
    /\ editingId = null
    /\ [][ /\ OnlyBeginEditSetsEditingId
           /\ AddModeAfterSubmitOrCancel
           /\ (EditingIdInRepository /\ ~DeletesEditedRecord) =>
                 EditingIdInRepository'
           /\ DeletesEditedRecord =>
                 (editingId' = editingId /\ editingId' \notin Ids(clients'))
       ]_vars

\* the record being edited has just been deleted; another record remains
C22_Witness ==
    /\ lastEvent.op = "delete"
    /\ lastEvent.result = "deleted"
    /\ editingId # null
    /\ lastEvent.id = editingId
    /\ editingId \notin Ids(clients)
    /\ Len(clients) = 1

(* C23: once an exercise fetch has completed, successfully or not, with no  *)
(* other fetch in flight, the detail view is not blank: at least one        *)
(* exercise is listed or the placeholder holds a non-empty message, for     *)
(* every response content, blank English names included.                    *)
C23_DetailViewNeverBlank ==
    [][ (/\ lastEvent'.op = "fetch"
         /\ lastEvent'.result # "response"
         /\ pending'.fetch + pending'.json = 0) =>
            (exercises' # <<>> \/ placeholder' # EmptyString) ]_vars

(* C24: after a non-empty search has been applied and until the query is    *)
(* changed or cleared, the rendered table shows only records matching that  *)
(* query and the count summary is the number of matching records, also      *)
(* after a submission or a delete performed from the filtered view.  The    *)
(* steps looked at are the submit and delete clicks that come right after   *)
(* the search was applied, the search box untouched.                        *)
C24_FilteredViewStaysFiltered ==
    [][ (/\ lastEvent.op = "search"
         /\ trim(searchInput) # EmptyString
         /\ searchInput' = searchInput
         /\ lastEvent'.op \in {"submit", "delete"}) =>
            /\ rows' = KeepMatching(clients', trim(searchInput))
            /\ Len(rows') =
                  Cardinality({i \in 1..Len(clients') :
                      ContainsIgnoringCase(clients'[i].fullName,
                                           trim(searchInput))}) ]_vars

(* C25: the random selection loop of the exercise fetcher terminates for    *)
(* every response and every sequence of random choices, after at most as    *)
(* many iterations as there are items in the English-filtered set, because  *)
(* each iteration removes one candidate: a run that ends with fewer than 5  *)
(* selected exercises has looked at every item of the set once.             *)
C25_SelectionLoopTerminates ==
    [][ (lastEvent'.op = "fetch" /\ lastEvent'.result = "shown") =>
          LET exercisesWithEnglish == SelectSeq(received'.results, HasEnglish)
              outcomes == SelectionOutcomes(<<>>, exercisesWithEnglish, 0)
          IN  /\ \A outcome \in outcomes :
                    /\ outcome.iterations <= Len(exercisesWithEnglish)
                    /\ outcome.iterations >= Len(outcome.selected)
                    /\ Len(outcome.selected) < 5 =>
                          outcome.iterations = Len(exercisesWithEnglish)
              /\ \E outcome \in outcomes :
                    exercises' = exercises \o ListItems(outcome.selected) ]_vars

\* the loop has run on a response of which it skipped a candidate: fewer
\* exercises are listed than the English-filtered set holds
C25_Witness ==
    /\ lastEvent.op = "fetch"
    /\ lastEvent.result = "shown"
    /\ received = BodyMixed
    /\ exercises # <<>>
    /\ Len(exercises) < Len(SelectSeq(received.results, HasEnglish))

====
